---- MODULE Spec2Model ----
(***************************************************************************)
(* Snapshot homing (src/src/main.rs): circular images built from circular  *)
(* obstacles, segment merging, segment matching and the homing vector.      *)
(*                                                                         *)
(* Number representation.  The program computes in f32.  The model computes *)
(* in exact fixed-point arithmetic:                                        *)
(*   - angles are integers counted in ticks of 7.5 degrees, PI = 24 ticks;  *)
(*     every segment an obstacle produces has an even bisector and a width  *)
(*     that is a multiple of 4, so that every "/ 2.0" of the program is an  *)
(*     exact integer division in the model;                                *)
(*   - sines and cosines are taken from SinTable, in thousandths;          *)
(*   - f32 coordinates (circle centres, radii) are integers counted in     *)
(*     halves, so that 3.5 is 7; i32 coordinates are plain integers.       *)
(***************************************************************************)
EXTENDS Integers, Sequences, FiniteSets, TLC

VARIABLES
    obstacles,      \* World.obstacles: sequence of Circle
    grid,           \* World.grid: [width: [start, end], height: [start, end]]
    sortReversed,   \* how sort_unstable_by orders segments of equal bisector
    pc,             \* position of the program
    bee,            \* Bee: [snapshot: Image.segments, position: <<x, y>>]
    home_position,  \* the argument Bee::new was called with
    homing,         \* the locals and the result of the last Bee::home call
    field,          \* VectorField::generate: the local `field`
    cursor,         \* VectorField::generate: the loop variables <<x, y>>
    error_terms,    \* VectorField::generate: cells added to avg_angular_error
    segments,       \* a list of projected segments (input of the pure functions)
    applied         \* the result of the pure function applied to `segments`

vars == <<obstacles, grid, sortReversed, pc, bee, home_position, homing, field,
          cursor, error_terms, segments, applied>>

---------------------------------------------------------------------------
(* Bounds of the model *)

\* longest obstacle list of a World (besides the world of main)
MaxObstacles == 2
\* the grid ranges start at -1 and end (exclusive) at GridMax or one before
GridMax == 2
\* longest segment list given to the pure functions
MaxSegs == 3

---------------------------------------------------------------------------
(* Geometry primitives *)

\* std::f32::consts::PI, in ticks
PI == 24

TWO_PI == 2 * PI

Abs(x) == IF x < 0 THEN -x ELSE x

\* the element of a one-element set: Only({F(v) : v \in {e}}) is F(e), with e
\* evaluated once (the `let v = e;` of the program)
Only(S) == CHOOSE v \in S : TRUE

\* sin of 0, 7.5, ..., 90 degrees, in thousandths
SinTable == <<0, 131, 259, 383, 500, 609, 707, 793, 866, 924, 966, 991, 1000>>

\* the f32 value 1.0 in the scale of SinTable
ONE == SinTable[Len(SinTable)]

\* f32::sin of an angle in ticks
Sin(a) ==
    LET m == a % TWO_PI
    IN  IF m <= PI \div 2 THEN SinTable[m + 1]
        ELSE IF m <= PI THEN SinTable[PI - m + 1]
        ELSE IF m <= PI + PI \div 2 THEN -SinTable[m - PI + 1]
        ELSE -SinTable[TWO_PI - m + 1]

\* f32::cos of an angle in ticks
Cos(angle) == Sin(angle + PI \div 2)

\* an f32 division a / b for b > 0, truncated to the scale (sign-symmetric)
Quot(a, b) == IF a < 0 THEN -((-a) \div b) ELSE a \div b

RECURSIVE IsqrtIn(_, _, _)
IsqrtIn(n, lo, hi) ==
    IF lo >= hi THEN lo
    ELSE Only({IF mid * mid <= n THEN IsqrtIn(n, mid, hi) ELSE IsqrtIn(n, lo, mid - 1) :
                  mid \in {(lo + hi + 1) \div 2}})

\* f32::sqrt, rounded down
Sqrt(n) == IsqrtIn(n, 0, 46340)

\* the length of the projection of (vx, vy) on the direction k, in thousandths
Projection(vy, vx, k) == vx * Cos(k) + vy * Sin(k)

\* the multiples of q in the quadrant of (vx, vy), its two axes included
Quadrant(vy, vx, q) ==
    {c \in (IF vy >= 0
            THEN (IF vx >= 0 THEN 0..(PI \div 2) ELSE (PI \div 2)..PI)
            ELSE (IF vx >= 0 THEN (-(PI \div 2))..0
                  ELSE ((1 - PI)..(-(PI \div 2))) \cup {PI})) : c % q = 0}

\* f32::atan2(vy, vx) in (-PI, PI], rounded to the nearest multiple of q
\* ticks: the direction of the quadrant on which (vx, vy) has its largest
\* projection (the later of two equally good ones)
Atan2(vy, vx, q) ==
    IF vx = 0 /\ vy = 0 THEN 0
    ELSE CHOOSE k \in Quadrant(vy, vx, q) :
            /\ Projection(vy, vx, k) >= Projection(vy, vx, k - q)
            /\ Projection(vy, vx, k) > Projection(vy, vx, k + q)

RECURSIVE AsinScan(_, _, _)
AsinScan(num, denSq, k) ==
    IF k >= PI \div 2 \/ Sin(k) * Sin(k) * denSq >= num * num * ONE * ONE
    THEN k
    ELSE AsinScan(num, denSq, k + 2)

\* f32::asin(num / sqrt(denSq)) for 0 <= num <= sqrt(denSq), rounded up to an
\* even number of ticks
Asin(num, denSq) == AsinScan(num, denSq, 0)

\* Vec2<f32>: a pair in the scale the caller chooses; nan marks NaN components
Vec2(x, y) == [nan |-> FALSE, x |-> x, y |-> y]

NaNVec == [nan |-> TRUE, x |-> 0, y |-> 0]

\* Into<Vec2<f32>> for Vec2<i32>: i32 units to f32 halves
IntoF32(p) == <<2 * p[1], 2 * p[2]>>

\* Vec2::len of a Vec2 record
VecLen(v) == Sqrt(v.x * v.x + v.y * v.y)

\* Vec2::normalized: both components divided by the length; 0.0 / 0.0 is NaN
VecNormalized(v) ==
    Only({IF vec.nan \/ len = 0 THEN NaNVec
          ELSE Vec2(Quot(vec.x * ONE, len), Quot(vec.y * ONE, len)) :
             vec \in {v}, len \in {IF v.nan THEN 0 ELSE VecLen(v)}})

\* impl Add / AddAssign for Vec2
VecAdd(a, b) == IF a.nan \/ b.nan THEN NaNVec ELSE Vec2(a.x + b.x, a.y + b.y)

\* impl Mul<Vec2<f32>> for f32
VecMul(k, v) == IF v.nan THEN NaNVec ELSE Vec2(k * v.x, k * v.y)

\* impl Distance for f32: atan2(sin(other - self), cos(other - self)), the
\* difference other - self wrapped into (-PI, PI]
AngleDist(self, other) ==
    LET d == (other - self) % TWO_PI
    IN  IF d > PI THEN d - TWO_PI ELSE d

\* impl Distance for Segment
Dist(self, other) == AngleDist(self.bisector, other.bisector)

---------------------------------------------------------------------------
(* Segments *)

OCCLUDED == TRUE
BACKGROUND == FALSE

Segment(b, w, c) == [bisector |-> b, width |-> w, color |-> c]

CollidesStrict(self, other) ==
    LET arc_dist == Abs(Dist(self, other))
    IN  IF arc_dist >= self.width \div 2 + other.width \div 2 THEN FALSE ELSE TRUE

\* Segment::collides
Collides(self, other) ==
    LET arc_dist == Abs(Dist(self, other))
    IN  IF arc_dist > self.width \div 2 + other.width \div 2 THEN FALSE ELSE TRUE

\* Segment::merge, the body of `if merged.collides(segment)`: the pivot after
\* it absorbed `segment`
Absorb(merged, segment) ==
    LET m0 == merged.bisector - merged.width \div 2
        m1 == merged.bisector + merged.width \div 2
        o0 == segment.bisector - segment.width \div 2
        o1 == segment.bisector + segment.width \div 2
        edges ==
            IF o0 > m1 /\ o0 > m0 /\ o1 > m1 THEN <<m0, o1>>
            ELSE IF o0 < m1 /\ o0 < m0 /\ o1 < m1 THEN <<o0, m1>>
            ELSE IF o0 < m0 /\ o1 > m1 THEN <<o0, o1>>
            ELSE <<m0, m1>>
    IN  [merged EXCEPT !.bisector = (edges[1] + edges[2]) \div 2,
                       !.width = edges[2] - edges[1]]

RECURSIVE MergeUpTo(_, _, _)
\* Segment::merge, <<merged, separated>> after the loop took segs[1 .. k]
MergeUpTo(check_with, segs, k) ==
    IF k = 0 THEN <<check_with, <<>>>>
    ELSE Only({IF Collides(prev[1], segs[k])
               THEN <<Absorb(prev[1], segs[k]), prev[2]>>
               ELSE <<prev[1], Append(prev[2], segs[k])>> :
                  prev \in {MergeUpTo(check_with, segs, k - 1)}})

\* Segment::merge: <<merged, separated>>
Merge(check_with, segs) == MergeUpTo(check_with, segs, Len(segs))

MergeLoopOnce(segs) == <<Merge(Head(segs), Tail(segs))[1]>>

RECURSIVE MergeLoop(_)
\* Image::new, the do-while loop over a non-empty list: merged_segments
MergeLoop(segs) ==
    Only({<<r[1]>> \o (IF r[2] = <<>> THEN <<>> ELSE MergeLoop(r[2])) :
             r \in {Merge(Head(segs), Tail(segs))}})

\* where an insertion sort puts s: after the segments of equal bisector, or
\* before them when rev
RECURSIVE Insert(_, _, _)
Insert(s, sorted, rev) ==
    IF sorted = <<>> THEN <<s>>
    ELSE IF s.bisector < Head(sorted).bisector
            \/ (rev /\ s.bisector = Head(sorted).bisector)
         THEN <<s>> \o sorted
         ELSE <<Head(sorted)>> \o Insert(s, Tail(sorted), rev)

RECURSIVE SortUpTo(_, _, _)
SortUpTo(segs, k, rev) ==
    IF k = 0 THEN <<>>
    ELSE Only({Insert(segs[k], sorted, rev) : sorted \in {SortUpTo(segs, k - 1, rev)}})

\* sort_unstable_by(|a, b| a.bisector.partial_cmp(&b.bisector).unwrap()): the
\* order of segments of equal bisector is the sort's choice, the same in every
\* call of one build (rev)
SortByBisector(segs, rev) == SortUpTo(segs, Len(segs), rev)

FillNoWrap(merged, i) ==
    LET self_edge == merged[i].bisector - merged[i].width \div 2
        last == merged[Len(merged)]
        edge_prev ==
            IF i = 1 THEN last.bisector + last.width \div 2
            ELSE merged[i - 1].bisector + merged[i - 1].width \div 2
        new_bisector == (edge_prev + self_edge) \div 2
        new_width == self_edge - edge_prev
    IN  [bisector |-> IF new_bisector < 0 THEN new_bisector + TWO_PI ELSE new_bisector,
         width |-> new_width, color |-> FALSE]

\* Image::new, the body of the fill loop: the white segment before merged[i]
Fill(merged, i) ==
    LET self_edge == merged[i].bisector - merged[i].width \div 2
        last == merged[Len(merged)]
        edge_prev ==
            IF i = 1 THEN last.bisector + last.width \div 2 - TWO_PI
            ELSE merged[i - 1].bisector + merged[i - 1].width \div 2
        new_bisector == (edge_prev + self_edge) \div 2
        new_width == self_edge - edge_prev
    IN  Segment(IF new_bisector < 0 THEN new_bisector + TWO_PI ELSE new_bisector,
                new_width, BACKGROUND)

\* the outcome of indexing an empty Vec, or of unwrap on None
Panic == [ok |-> FALSE, segments |-> <<>>]

ImageOfNoFill(segs, rev) ==
    IF segs = <<>> THEN Panic
    ELSE [ok |-> TRUE, segments |-> SortByBisector(MergeLoop(segs), rev)]

\* Image::new after the projection loop: from the projected segments to the
\* Image, or the panic of segments[0] on an empty list
ImageOf(segs, rev) ==
    IF segs = <<>> THEN Panic
    ELSE Only({[ok |-> TRUE,
                segments |->
                    SortByBisector(
                        merged_segments
                            \o [i \in 1..Len(merged_segments) |-> Fill(merged_segments, i)],
                        rev)] :
                  merged_segments \in {SortByBisector(MergeLoop(segs), rev)}})

---------------------------------------------------------------------------
(* Obstacles and images *)

\* struct Circle; position and radius are f32, counted in halves
Circle(x, y, r) == [position |-> <<x, y>>, radius |-> r]

\* the outcome None of Obstacle::map
None == [some |-> FALSE]

Some(s) == [some |-> TRUE, segment |-> s]

CircleMapStrict(circle, position) ==
    LET p == IntoF32(position)
        vx == circle.position[1] - p[1]
        vy == circle.position[2] - p[2]
        lenSq == vx * vx + vy * vy
        at == Atan2(vy, vx, 2)
    IN  IF lenSq > circle.radius * circle.radius
        THEN Some(Segment(IF at < 0 THEN TWO_PI + at ELSE at,
                          Asin(circle.radius, lenSq) * 2, OCCLUDED))
        ELSE None

\* impl Obstacle for Circle: map.  vec.len() >= self.radius is compared on
\* the squares, which is exact for the radii >= 0 of the model
CircleMap(circle, position) ==
    LET p == IntoF32(position)
        vx == circle.position[1] - p[1]
        vy == circle.position[2] - p[2]
        lenSq == vx * vx + vy * vy
        at == Atan2(vy, vx, 2)
    IN  IF lenSq >= circle.radius * circle.radius
        THEN Some(Segment(IF at < 0 THEN TWO_PI + at ELSE at,
                          Asin(circle.radius, lenSq) * 2, OCCLUDED))
        ELSE None

RECURSIVE Project(_, _)
\* Image::new, the projection loop: the segments of the obstacles that have one
Project(position, obs) ==
    IF obs = <<>> THEN <<>>
    ELSE Only({(IF m.some THEN <<m.segment>> ELSE <<>>) \o Project(position, Tail(obs)) :
                  m \in {CircleMap(Head(obs), position)}})

\* Image::new
ImageNew(position, obs, rev) ==
    Only({ImageOf(segs, rev) : segs \in {Project(position, obs)}})

---------------------------------------------------------------------------
(* Bee::home *)

\* the indices of the retinal segments of the colour c
SameColor(retina, c) == {j \in 1..Len(retina) : retina[j].color = c}

\* the first retinal segment of the colour of snapshot_segment (find_map)
FirstSameColor(snapshot_segment, retina) ==
    LET same == SameColor(retina, snapshot_segment.color)
    IN  CHOOSE j \in same : \A k \in same : j <= k

RECURSIVE BestMatchLastUpTo(_, _, _)
BestMatchLastUpTo(snapshot_segment, retina, j) ==
    IF j = 0 THEN FirstSameColor(snapshot_segment, retina)
    ELSE Only({IF Abs(Dist(snapshot_segment, retina[j]))
                      <= Abs(Dist(snapshot_segment, retina[best]))
                  /\ retina[j].color = snapshot_segment.color
               THEN j ELSE best :
                  best \in {BestMatchLastUpTo(snapshot_segment, retina, j - 1)}})

RECURSIVE BestMatchUpTo(_, _, _)
\* Bee::home, the closure of the matching step, for a retina that has a
\* segment of the colour: the index in the retina of best_match_so_far after
\* the loop took retina[1 .. j]
BestMatchUpTo(snapshot_segment, retina, j) ==
    IF j = 0 THEN FirstSameColor(snapshot_segment, retina)
    ELSE Only({IF Abs(Dist(snapshot_segment, retina[j]))
                      < Abs(Dist(snapshot_segment, retina[best]))
                  /\ retina[j].color = snapshot_segment.color
               THEN j ELSE best :
                  best \in {BestMatchUpTo(snapshot_segment, retina, j - 1)}})

\* Bee::home, the matching step: the pairs (snapshot segment, best match)
Matched(snapshot, retina) ==
    [i \in 1..Len(snapshot) |->
        <<snapshot[i], retina[BestMatchUpTo(snapshot[i], retina, Len(retina))]>>]

\* Bee::home, one term of the turning vector
TurningTerm(snap_segment, ret_segment) ==
    LET d == IF Dist(ret_segment, snap_segment) < 0 THEN -1 ELSE 1
        diff == IF ret_segment.width > PI THEN -d ELSE d
    IN  VecNormalized(Vec2(Cos(ret_segment.bisector - PI \div 2) * diff,
                           Sin(ret_segment.bisector - PI \div 2) * diff))

\* Bee::home, one term of the positioning vector
PositioningTerm(snap_segment, ret_segment) ==
    LET diff == IF snap_segment.width > ret_segment.width THEN 1 ELSE -1
    IN  VecNormalized(Vec2(Cos(ret_segment.bisector) * diff,
                           Sin(ret_segment.bisector) * diff))

RECURSIVE TurningVec(_, _)
\* Bee::home: turning_vec, the sum of the terms of matched[i ..]
TurningVec(matched, i) ==
    IF i > Len(matched) THEN Vec2(0, 0)
    ELSE VecAdd(TurningTerm(matched[i][1], matched[i][2]), TurningVec(matched, i + 1))

RECURSIVE PositioningVec(_, _)
\* Bee::home: positioning_vec, the sum of the terms of matched[i ..]
PositioningVec(matched, i) ==
    IF i > Len(matched) THEN Vec2(0, 0)
    ELSE VecAdd(PositioningTerm(matched[i][1], matched[i][2]),
                PositioningVec(matched, i + 1))

\* what a Bee::home call that did not run leaves behind
NoCall == [called |-> FALSE]

\* a Bee::home call that panicked, in Image::new or in unwrap
HomePanic(retinal_image) ==
    [called |-> TRUE, ok |-> FALSE, retinal_image |-> retinal_image]

\* Bee::home after the matching step: the locals and the result of the call
HomeVector(retinal_image, matched) ==
    Only({[called |-> TRUE, ok |-> TRUE, retinal_image |-> retinal_image,
           matched |-> matched, final_vec |-> final_vec,
           out |-> VecNormalized(final_vec)] :
             final_vec \in {VecAdd(TurningVec(matched, 1),
                                   VecMul(3, PositioningVec(matched, 1)))}})

\* Bee::home after Image::new: unwrap panics when the retina has no segment of
\* the colour of a snapshot segment
HomeFrom(snapshot, retinal_image) ==
    IF ~retinal_image.ok THEN HomePanic(retinal_image)
    ELSE IF \E i \in 1..Len(snapshot) :
                SameColor(retinal_image.segments, snapshot[i].color) = {}
    THEN HomePanic(retinal_image)
    ELSE Only({HomeVector(retinal_image, matched) :
                  matched \in {Matched(snapshot, retinal_image.segments)}})

\* Bee::home: the locals and the result of the call
Home(b, obs, rev) ==
    Only({HomeFrom(b.snapshot, retinal_image) :
             retinal_image \in {ImageNew(b.position, obs, rev)}})

---------------------------------------------------------------------------
(* The inputs of the model *)

\* the sequences over S of length 0 .. n
SeqsUpTo(S, n) == UNION {[1..k -> S] : k \in 0..n}

\* circles near the origin: east, south-east, west, and one whose rim passes
\* through (0, 0) and whose centre is (1, 0)
CircleChoices ==
    {Circle(4, 0, 2), Circle(4, -2, 2), Circle(-4, 0, 2), Circle(2, 0, 2)}

\* the World of main and of the tests: circles at (3.5, 2), (3.5, -2), (0, -4)
\* of radius 0.5
MainWorld == <<Circle(7, 4, 1), Circle(7, -4, 1), Circle(0, -8, 1)>>

\* the obstacle lists of distinct circles, in every order, and the world of main
Worlds ==
    {w \in SeqsUpTo(CircleChoices, MaxObstacles) :
        \A i, j \in 1..Len(w) : i # j => w[i] # w[j]} \cup {MainWorld}

\* the positions of the Bee: the cells of the largest grid
Positions == (-1..(GridMax - 1)) \X (-1..(GridMax - 1))

\* the position the test `help` moves the Bee to
HelpPosition == <<5, -5>>

\* struct Grid: two Range<i32>, end exclusive; the square grid and the two
\* grids that are one cell shorter in one direction
Grids ==
    {[width |-> [start |-> -1, end |-> we], height |-> [start |-> -1, end |-> he]] :
        we \in {GridMax - 1, GridMax}, he \in {GridMax - 1, GridMax}}
        \ {[width |-> [start |-> -1, end |-> GridMax - 1],
             height |-> [start |-> -1, end |-> GridMax - 1]]}

\* segments an obstacle may project: bisectors at the multiples of PI / 4,
\* widths of 30, 60 and 90 degrees
SegmentChoices ==
    {Segment(b * (PI \div 4), w, OCCLUDED) : b \in 0..7, w \in {4, 8, 12}}

---------------------------------------------------------------------------
(* The program: Bee::new, position changes, Bee::home, VectorField::generate *)

NoBee == [snapshot |-> <<>>, position |-> <<0, 0>>]

NoApplied == [op |-> "none"]

Init ==
    /\ obstacles \in Worlds
    /\ grid \in Grids
    /\ sortReversed \in BOOLEAN
    /\ pc = "start"
    /\ bee = NoBee
    /\ home_position = <<0, 0>>
    /\ homing = NoCall
    /\ field = <<>>
    /\ cursor = <<0, 0>>
    /\ error_terms = 0
    /\ segments = <<>>
    /\ applied = NoApplied

\* Bee::new(world, hp)
BeeNew ==
    /\ pc = "start"
    /\ \E hp \in Positions :
        \E snapshot \in {ImageNew(hp, obstacles, sortReversed)} :
            /\ home_position' = hp
            /\ IF snapshot.ok
               THEN /\ bee' = [snapshot |-> snapshot.segments, position |-> hp]
                    /\ pc' = "ready"
               ELSE /\ bee' = bee
                    /\ pc' = "panic"
    /\ UNCHANGED <<obstacles, grid, sortReversed, homing, field, cursor,
                   error_terms, segments, applied>>

\* bee.position = p, as the test `help` does
SetPosition ==
    /\ pc = "ready"
    /\ \E p \in Positions \cup {HelpPosition} : bee' = [bee EXCEPT !.position = p]
    /\ homing' = NoCall
    /\ UNCHANGED <<obstacles, grid, sortReversed, pc, home_position, field,
                   cursor, error_terms, segments, applied>>

BeeHomeOverwriting ==
    /\ pc = "ready"
    /\ \E h \in {Home(bee, obstacles, sortReversed)} :
        /\ homing' = h
        /\ pc' = IF h.ok THEN "ready" ELSE "panic"
        /\ bee' = IF h.ok THEN [bee EXCEPT !.snapshot = h.retinal_image.segments]
                  ELSE bee
    /\ UNCHANGED <<obstacles, grid, sortReversed, home_position, field,
                   cursor, error_terms, segments, applied>>

\* bee.home(world)
BeeHome ==
    /\ pc = "ready"
    /\ UNCHANGED <<obstacles, grid, sortReversed, bee, home_position, field,
                   cursor, error_terms, segments, applied>>
    /\ \E h \in {Home(bee, obstacles, sortReversed)} :
        /\ homing' = h
        /\ pc' = IF h.ok THEN "ready" ELSE "panic"

\* VectorField::index
Index(g, position) ==
    LET height_total == g.height.end - g.height.start
        x == position[1] - g.width.start
        y == height_total - (position[2] - g.height.start) - 1
    IN  <<x, y>>

\* VectorField::generate up to the loops: the field of zero vectors, with
\* height rows of width columns
GenerateBegin ==
    /\ pc = "ready"
    /\ field' = [row \in 1..(grid.height.end - grid.height.start) |->
                    [col \in 1..(grid.width.end - grid.width.start) |-> Vec2(0, 0)]]
    /\ error_terms' = 0
    /\ homing' = NoCall
    /\ IF grid.height.start < grid.height.end /\ grid.width.start < grid.width.end
       THEN pc' = "generate" /\ cursor' = <<grid.width.start, grid.height.start>>
       ELSE pc' = "done" /\ cursor' = cursor
    /\ UNCHANGED <<obstacles, grid, sortReversed, bee, home_position, segments,
                   applied>>

\* VectorField::generate, one iteration of the inner loop, for the cell
\* `cursor`: the angle is NaN when the homing vector is, and at position (0, 0)
GenerateStep ==
    /\ pc = "generate"
    /\ \E x \in {cursor[1]}, y \in {cursor[2]}, index \in {Index(grid, cursor)} :
       \E h \in {Home([bee EXCEPT !.position = <<x, y>>], obstacles, sortReversed)} :
           /\ bee' = [bee EXCEPT !.position = <<x, y>>]
           /\ homing' = h
           /\ IF ~h.ok
              THEN pc' = "panic" /\ UNCHANGED <<field, cursor, error_terms>>
              ELSE /\ error_terms' = IF h.out.nan \/ (x = 0 /\ y = 0)
                                     THEN error_terms ELSE error_terms + 1
                   /\ IF ~(/\ index[1] \in 0..(Len(field) - 1)
                           /\ index[2] \in 0..(Len(field[index[1] + 1]) - 1))
                      THEN pc' = "panic" /\ UNCHANGED <<field, cursor>>
                      ELSE /\ field' = [field EXCEPT ![index[1] + 1][index[2] + 1] = h.out]
                           /\ IF x + 1 < grid.width.end
                              THEN pc' = pc /\ cursor' = <<x + 1, y>>
                              ELSE IF y + 1 < grid.height.end
                              THEN pc' = pc /\ cursor' = <<grid.width.start, y + 1>>
                              ELSE pc' = "done" /\ cursor' = cursor
    /\ UNCHANGED <<obstacles, grid, sortReversed, home_position, segments, applied>>

Next == BeeNew \/ SetPosition \/ BeeHome \/ GenerateBegin \/ GenerateStep

Spec == Init /\ [][Next]_vars

---------------------------------------------------------------------------
(* The pure functions of Image::new and Segment, applied to segment lists *)

InitSegments ==
    /\ obstacles = <<>>
    /\ grid \in {g \in Grids : g.width.end = GridMax /\ g.height.end = GridMax}
    /\ sortReversed \in BOOLEAN
    /\ pc = "pure"
    /\ bee = NoBee
    /\ home_position = <<0, 0>>
    /\ homing = NoCall
    /\ field = <<>>
    /\ cursor = <<0, 0>>
    /\ error_terms = 0
    /\ segments \in SeqsUpTo(SegmentChoices, MaxSegs)
    /\ applied = NoApplied

others == <<obstacles, grid, sortReversed, pc, bee, home_position, homing, field,
            cursor, error_terms, segments>>

\* Image::new from the merge loop on, on the projected `segments`
ApplyImage ==
    /\ applied = NoApplied
    /\ applied' = [op |-> "image", image |-> ImageOf(segments, sortReversed)]
    /\ UNCHANGED others

\* the merge loop of Image::new alone
ApplyMergeLoop ==
    /\ applied = NoApplied
    /\ segments # <<>>
    /\ applied' = [op |-> "merge", merged |-> MergeLoop(segments)]
    /\ UNCHANGED others

\* a.collides(b) and b.collides(a) for the first two segments
ApplyCollides ==
    /\ applied = NoApplied
    /\ Len(segments) >= 2
    /\ applied' = [op |-> "collides",
                   ab |-> Collides(segments[1], segments[2]),
                   ba |-> Collides(segments[2], segments[1])]
    /\ UNCHANGED others

\* Segment::merge(segments[0], segments[1 ..]), as the first pass of the merge
\* loop calls it
ApplyMerge ==
    /\ applied = NoApplied
    /\ segments # <<>>
    /\ \E r \in {Merge(Head(segments), Tail(segments))} :
           applied' = [op |-> "step", merged |-> r[1], separated |-> r[2]]
    /\ UNCHANGED others

NextSegments == ApplyImage \/ ApplyMergeLoop \/ ApplyCollides \/ ApplyMerge

SpecSegments == InitSegments /\ [][NextSegments]_vars

---------------------------------------------------------------------------
(* Properties *)

\* the absolute circular distance of two angles, without atan2
CircDist(a, b) ==
    IF (a - b) % TWO_PI <= (b - a) % TWO_PI THEN (a - b) % TWO_PI ELSE (b - a) % TWO_PI

\* two arcs touch or overlap on the circle
Overlap(s, t) == 2 * CircDist(s.bisector, t.bisector) <= s.width + t.width

RECURSIVE SumWidths(_, _)
SumWidths(segs, k) == IF k = 0 THEN 0 ELSE segs[k].width + SumWidths(segs, k - 1)

\* how often the segment s occurs in segs
Count(s, segs) == Cardinality({i \in 1..Len(segs) : segs[i] = s})

\* C1: the widths of all segments of an image Image::new returns sum to 2 PI,
\* whatever the number, order and overlap of the projected segments
C1_WidthsSumToFullCircle ==
    (applied.op = "image" /\ segments # <<>>) =>
        /\ applied.image.ok
        /\ SumWidths(applied.image.segments, Len(applied.image.segments)) = TWO_PI

\* an image of three projected segments of which some were merged
C1_Witness ==
    /\ applied.op = "image"
    /\ Len(segments) = 3
    /\ applied.image.ok
    /\ Len(applied.image.segments) = 4
    /\ SumWidths(applied.image.segments, 4) = TWO_PI

\* C2: the segments of an image Image::new returns do not overlap: no two
\* occluded segments collide, every occluded segment is at most 2 PI wide and
\* every background segment is wider than 0
C2_NoOverlap ==
    (applied.op = "image" /\ segments # <<>>) =>
        LET img == applied.image.segments
        IN  /\ applied.image.ok
            /\ \A i, j \in 1..Len(img) :
                   (i # j /\ img[i].color = OCCLUDED /\ img[j].color = OCCLUDED)
                       => ~Overlap(img[i], img[j])
            /\ \A i \in 1..Len(img) :
                   /\ img[i].color = OCCLUDED => img[i].width <= TWO_PI
                   /\ img[i].color = BACKGROUND => img[i].width > 0

\* C3: when no obstacle yields a segment, Image::new returns one BACKGROUND
\* segment of width 2 PI and does not panic (here: the call in Bee::new)
C3_EmptyImageIsBackground ==
    (pc # "start" /\ Project(home_position, obstacles) = <<>>) =>
        /\ pc # "panic"
        /\ Len(bee.snapshot) = 1
        /\ bee.snapshot[1].color = BACKGROUND
        /\ bee.snapshot[1].width = TWO_PI

\* the square of the distance d of a circle's centre from a viewpoint, in halves
DistSq(circle, position) ==
    (circle.position[1] - 2 * position[1]) * (circle.position[1] - 2 * position[1])
        + (circle.position[2] - 2 * position[2]) * (circle.position[2] - 2 * position[2])

\* C4: Circle::map returns no segment whenever d <= r, d == r included, and one
\* OCCLUDED segment only when d > r (here: for the Bee's position)
C4_RimIsInside ==
    pc = "ready" =>
        \A i \in 1..Len(obstacles) :
            LET m == CircleMap(obstacles[i], bee.position)
                inside == DistSq(obstacles[i], bee.position)
                              <= obstacles[i].radius * obstacles[i].radius
            IN  /\ inside => ~m.some
                /\ ~inside => (m.some /\ m.segment.color = OCCLUDED)

\* C5: a.collides(b) is true exactly when the circular distance of the
\* bisectors is at most half the sum of the widths; it is symmetric; the
\* segments at PI/4 and 7 PI/4 of width PI/2 collide, those at PI/4 and 5 PI/4
\* do not
C5_CollidesIsCircularOverlap ==
    applied.op = "collides" =>
        /\ applied.ab = Overlap(segments[1], segments[2])
        /\ applied.ab = applied.ba
        /\ (/\ segments[1] = Segment(PI \div 4, PI \div 2, OCCLUDED)
            /\ segments[2] = Segment(7 * (PI \div 4), PI \div 2, OCCLUDED)) => applied.ab
        /\ (/\ segments[1] = Segment(PI \div 4, PI \div 2, OCCLUDED)
            /\ segments[2] = Segment(5 * (PI \div 4), PI \div 2, OCCLUDED)) => ~applied.ab

\* the segments at PI/4 and 7 PI/4, touching across the seam, were tested
C5_Witness ==
    /\ applied.op = "collides"
    /\ segments[1] = Segment(PI \div 4, PI \div 2, OCCLUDED)
    /\ segments[2] = Segment(7 * (PI \div 4), PI \div 2, OCCLUDED)
    /\ applied.ab
    /\ applied.ba

\* the retinal segments of the colour of s at the least circular distance of s
Nearest(s, retina) ==
    {j \in 1..Len(retina) :
        /\ retina[j].color = s.color
        /\ \A k \in 1..Len(retina) :
               retina[k].color = s.color =>
                   CircDist(s.bisector, retina[j].bisector)
                       <= CircDist(s.bisector, retina[k].bisector)}

\* C6: the matching step of Bee::home yields one pair per snapshot segment; the
\* retinal segment of a pair has the colour of the snapshot segment and the
\* least circular distance among the retinal segments of that colour, and is
\* the first such segment in the retina's order
C6_MatchIsFirstNearest ==
    (homing.called /\ homing.ok) =>
        LET retina == homing.retinal_image.segments
        IN  /\ Len(homing.matched) = Len(bee.snapshot)
            /\ \A i \in 1..Len(bee.snapshot) :
                   LET near == Nearest(bee.snapshot[i], retina)
                   IN  /\ homing.matched[i][1] = bee.snapshot[i]
                       /\ near # {}
                       /\ homing.matched[i][2] =
                              retina[CHOOSE j \in near : \A k \in near : j <= k]

\* a snapshot segment had two different retinal segments at the least distance
C6_Witness ==
    /\ homing.called
    /\ homing.ok
    /\ \E i \in 1..Len(bee.snapshot) :
           LET retina == homing.retinal_image.segments
               near == Nearest(bee.snapshot[i], retina)
           IN  /\ \E j, k \in near : j < k /\ retina[j] # retina[k]
               /\ homing.matched[i][2] = retina[CHOOSE j \in near : \A k \in near : j <= k]

\* C7: at the position of the snapshot the retina equals the snapshot, every
\* matched pair has distance zero and Bee::home returns the zero vector
C7_ZeroVectorAtHome ==
    (homing.called /\ bee.position = home_position) =>
        /\ homing.ok
        /\ homing.retinal_image.segments = bee.snapshot
        /\ \A i \in 1..Len(homing.matched) :
               CircDist(homing.matched[i][1].bisector, homing.matched[i][2].bisector) = 0
        /\ homing.out = Vec2(0, 0)

\* C8: when turning_vec + 3 * positioning_vec is the zero vector, Bee::home
\* returns the zero vector and not NaN
C8_ZeroSentinel ==
    (homing.called /\ homing.ok /\ homing.final_vec = Vec2(0, 0)) =>
        homing.out = Vec2(0, 0)

\* C9: the merge loop, given segments of which no two collide, returns exactly
\* those segments, none changed, dropped or duplicated
C9_MergeIdempotent ==
    (/\ applied.op = "merge"
     /\ \A i, j \in 1..Len(segments) : i # j => ~Overlap(segments[i], segments[j])) =>
        /\ Len(applied.merged) = Len(segments)
        /\ \A i \in 1..Len(segments) :
               Count(segments[i], applied.merged) = Count(segments[i], segments)

\* three segments of which no two collide went through the merge loop
C9_Witness ==
    /\ applied.op = "merge"
    /\ Len(segments) = 3
    /\ \A i, j \in 1..3 : i # j => ~Overlap(segments[i], segments[j])
    /\ Len(applied.merged) = 3

\* C10: the snapshot stays the image built at the home position in Bee::new;
\* no step after Bee::new changes the snapshot or the obstacles, and Bee::home
\* changes nothing of the Bee
C10_SnapshotFixed ==
    /\ [](pc \in {"ready", "generate", "done"} =>
              bee.snapshot = ImageNew(home_position, obstacles, sortReversed).segments)
    /\ [][/\ pc # "start" => (bee'.snapshot = bee.snapshot /\ obstacles' = obstacles)
          /\ bee' = bee \/ ~BeeHome]_vars

\* VectorField::generate moved the Bee away from home and queried Bee::home
C10_Witness ==
    /\ pc = "generate"
    /\ homing.called
    /\ homing.ok
    /\ bee.position # home_position
    /\ homing.retinal_image.segments # bee.snapshot
    /\ bee.snapshot = ImageNew(home_position, obstacles, sortReversed).segments

\* the arc of the segment s covers the angle a
Covers(s, a) == 2 * CircDist(s.bisector, a) <= s.width

\* C11: Segment::merge absorbs a segment that collides with the pivot by
\* extending the pivot to the union span of the two arcs: afterwards the pivot
\* covers every angle either arc covers and no other angle, and the absorbed
\* segment is not among the separated ones
C11_AbsorbIsUnion ==
    (/\ applied.op = "step"
     /\ Len(segments) = 2
     /\ Overlap(segments[1], segments[2])) =>
        /\ applied.separated = <<>>
        /\ \A a \in 0..(TWO_PI - 1) :
               Covers(applied.merged, a)
                   <=> (Covers(segments[1], a) \/ Covers(segments[2], a))

\* as many BACKGROUND as OCCLUDED segments, and at least one of each
Balanced(segs) ==
    LET occluded == {i \in 1..Len(segs) : segs[i].color = OCCLUDED}
        background == {i \in 1..Len(segs) : segs[i].color = BACKGROUND}
    IN  /\ Cardinality(occluded) = Cardinality(background)
        /\ Cardinality(occluded) >= 1

\* C12: every image Image::new returns has as many BACKGROUND as OCCLUDED
\* segments and at least one of each; so for a snapshot and a retina built by
\* Image::new the matching step of Bee::home finds a retinal segment of the
\* colour of every snapshot segment and its unwrap does not fail, and
\* Bee::home does not fail at a position from which an obstacle is visible
C12_ImagesAreBalanced ==
    /\ bee.snapshot # <<>> => Balanced(bee.snapshot)
    /\ (homing.called /\ homing.retinal_image.ok) =>
           /\ Balanced(homing.retinal_image.segments)
           /\ \A i \in 1..Len(bee.snapshot) :
                  \E j \in 1..Len(homing.retinal_image.segments) :
                      homing.retinal_image.segments[j].color = bee.snapshot[i].color
           /\ homing.ok
    /\ (homing.called /\ Project(bee.position, obstacles) # <<>>) => homing.ok

\* the test `help`: in the world of main, a Bee made at (0, 0) and moved to
\* (5, -5) homed, with three obstacles in its snapshot
C12_Witness ==
    /\ obstacles = MainWorld
    /\ home_position = <<0, 0>>
    /\ bee.position = HelpPosition
    /\ homing.called
    /\ homing.ok
    /\ Len(bee.snapshot) = 6
    /\ Balanced(homing.retinal_image.segments)
    /\ Len(homing.matched) = 6

\* the cells of the grid g
Cells(g) == (g.width.start..(g.width.end - 1)) \X (g.height.start..(g.height.end - 1))

\* C13: for every grid, square or not, VectorField::generate stores the homing
\* vector of a cell in the slot vectors[index[0]][index[1]], which lies within
\* the field it allocated (grid height rows of grid width columns), and no two
\* cells have the same slot
C13_WritesWithinField ==
    (field # <<>> /\ homing.called /\ homing.ok) =>
        LET index == Index(grid, bee.position)
        IN  /\ Len(field) = grid.height.end - grid.height.start
            /\ \A row \in 1..Len(field) :
                   Len(field[row]) = grid.width.end - grid.width.start
            /\ index[1] \in 0..(Len(field) - 1)
            /\ index[2] \in 0..(Len(field[index[1] + 1]) - 1)
            /\ field[index[1] + 1][index[2] + 1] = homing.out
            /\ \A p, q \in Cells(grid) : p # q => Index(grid, p) # Index(grid, q)

====
